---- MODULE Spec2Model ----
(***************************************************************************)
(* Model of src/src/fetch_match.py: one run of main(), with the primary    *)
(* client get_cricapi_data, the fallback client run_cricbuzz_fallback and  *)
(* the normalizer parse_cricapi_match.                                     *)
(*                                                                         *)
(* Conventions.                                                            *)
(*  - What a call hands back is tagged by kind: Nothing (it returned       *)
(*    None), Raised (an exception left it) or Record(r) (it returned r).   *)
(*  - Text that the code inspects (status text, match type) is a sequence  *)
(*    of one-character strings so that lower() and the substring test are  *)
(*    computed as the code computes them.                                  *)
(*  - overs and run_rate are fixed-point integers in hundredths            *)
(*    (10.3 overs is 1030, a run rate of 6.19 is 619).                     *)
(***************************************************************************)
EXTENDS Integers, Sequences, FiniteSets, TLC

VARIABLES
    CRICAPI_KEY,           \* TRUE iff os.getenv('CRICAPI_KEY') is non-empty
    PYCRICBUZZ_AVAILABLE,  \* TRUE iff "from pycricbuzz import Cricbuzz" worked
    args,                  \* [test, match_id] once argparse has run
    pc,                    \* position of the run inside main()
    requests,              \* HTTP requests issued by get_cricapi_data so far
    first_request,         \* what happened to the first HTTP request
    data_source,           \* main's data_source
    fallback_calls,        \* number of invocations of run_cricbuzz_fallback
    cricbuzz,              \* what the Cricbuzz integration answered
    match_data,            \* what run_cricbuzz_fallback returned to main
    selected_match,        \* main's selected_match / parse_cricapi_match's input
    processed_data,        \* what parse_cricapi_match returned
    file,                  \* content of match_state.json
    writes,                \* number of times match_state.json was opened "w"
    exit_code,             \* process exit code, -1 while the run is going
    outcome                \* which terminal branch ended the run

vars == <<CRICAPI_KEY, PYCRICBUZZ_AVAILABLE, args, pc, requests, first_request,
          data_source, fallback_calls, cricbuzz, match_data, selected_match,
          processed_data, file, writes, exit_code, outcome>>

-----------------------------------------------------------------------------
(* Bounds of the model                                                     *)

MaxMatches == 2      \* longest match list a source returns
MaxOvers == 10       \* largest whole-over count fed to the normalizer alone
MaxRuns == 65        \* largest run count fed to the normalizer alone
MaxPhaseOvers == 41  \* largest whole-over count when the phase is derived

None == "None"                          \* Python None as a field value
Nothing == [kind |-> "none"]            \* a call returned None / not yet set
Raised == [kind |-> "raised"]           \* a call raised an exception
Record(r) == [kind |-> "record", record |-> r]   \* a call returned record r
PrevContent == [kind |-> "previous"]    \* match_state.json before the run

Ids == {"m1", "m2"}

-----------------------------------------------------------------------------
(* Text helpers                                                            *)

UpperCase == <<"A","B","C","D","E","F","G","H","I","J","K","L","M",
               "N","O","P","Q","R","S","T","U","V","W","X","Y","Z">>
LowerCase == <<"a","b","c","d","e","f","g","h","i","j","k","l","m",
               "n","o","p","q","r","s","t","u","v","w","x","y","z">>

lower_char(c) ==
    IF \E i \in 1..26 : UpperCase[i] = c
    THEN LowerCase[CHOOSE i \in 1..26 : UpperCase[i] = c]
    ELSE c

upper_char(c) ==
    IF \E i \in 1..26 : LowerCase[i] = c
    THEN UpperCase[CHOOSE i \in 1..26 : LowerCase[i] = c]
    ELSE c

\* str.lower()
lower(s) == [i \in 1..Len(s) |-> lower_char(s[i])]

\* str.upper()
upper(s) == [i \in 1..Len(s) |-> upper_char(s[i])]

\* Python's "sub in s" on strings
contains(sub, s) ==
    \E i \in 0..(Len(s) - Len(sub)) : SubSeq(s, i + 1, i + Len(sub)) = sub

INNINGS_BREAK == <<"i","n","n","i","n","g","s"," ","b","r","e","a","k">>
T20 == <<"t","2","0">>
ODI == <<"o","d","i">>

-----------------------------------------------------------------------------
(* Raw provider data: the primary API's wire format                        *)

\* A key that the JSON object does not have, and a JSON null, for text fields
Missing == <<"<missing>">>
NoneText == <<"<None>">>

LIVE_TEXT == <<"L","i","v","e">>
BREAK_TEXT == <<"I","n","n","i","n","g","s"," ","B","r","e","a","k">>
T20_TEXT == <<"T","2","0">>
INDIA == <<"I","n","d">>
AUSTRALIA == <<"A","u","s">>
BAT == <<"b","a","t">>
MATCH_NAME == <<"I"," ","v"," ","A">>

\* One entry of the 'score' list: r, w, o (overs in hundredths). o_is_number
\* is FALSE for a malformed entry whose 'o' is not a number (a string).
GoodEntry == [r |-> 65, w |-> 2, o |-> 1030, o_is_number |-> TRUE]
BadEntry == [r |-> 65, w |-> 2, o |-> 0, o_is_number |-> FALSE]

\* A filter that forgot the "ended" flag
is_live_ignoring_ended(m) == m.matchStarted

\* Line 257: a match is kept iff it has started and has not ended
is_live(m) == m.matchStarted /\ ~m.matchEnded

\* The raw matches a response of the primary API (or the fixture) may list.
\* The code reads nothing but the two flags and the id of a match that is
\* not live, so only live matches vary in status text and score entry.
RawMatches ==
    {m \in [id : Ids, matchStarted : BOOLEAN, matchEnded : BOOLEAN,
            status : {LIVE_TEXT, BREAK_TEXT},
            score : {<<GoodEntry>>, <<BadEntry>>},
            matchType : {T20_TEXT}, teams : {<<INDIA, AUSTRALIA>>},
            name : {MATCH_NAME}, venue : {"Eden Gardens"},
            tossWinner : {INDIA}, tossChoice : {BAT}] :
        \/ /\ m.matchStarted /\ ~m.matchEnded
           /\ (m.status = LIVE_TEXT \/ m.score = <<GoodEntry>>)
        \/ m.status = LIVE_TEXT /\ m.score = <<GoodEntry>>}

SeqsUpTo(S, n) == UNION {[1..k -> S] : k \in 0..n}

-----------------------------------------------------------------------------
(* parse_cricapi_match                                                     *)

\* round() of the rational n/d (d > 0, n >= 0): nearest integer, ties to even
round_ratio(n, d) ==
    LET f == n \div d
        r == n % d
    IN  IF 2 * r < d THEN f
        ELSE IF 2 * r > d THEN f + 1
        ELSE IF f % 2 = 0 THEN f ELSE f + 1

\* over_part = int(overs)
over_part(overs) == overs \div 100

\* ball_part = int(round((overs - over_part) * 10))
ball_part(overs) == round_ratio(overs % 100, 10)

\* total_balls = over_part * 6 + ball_part
total_balls(overs) == over_part(overs) * 6 + ball_part(overs)

\* A normalizer without the inner "if total_balls > 0"
reaches_division_unguarded(overs) == overs > 0

\* The guards under which line 90 divides by total_balls
reaches_division(overs) == overs > 0 /\ total_balls(overs) > 0

\* run_rate in hundredths: round((runs / total_balls) * 6, 2), else 0.0
run_rate(runs, overs) ==
    IF reaches_division(overs)
    THEN round_ratio(600 * runs, total_balls(overs))
    ELSE 0

\* dict.get(key, default) on a text field
get(value, default) == IF value = Missing THEN default ELSE value

\* status_enum (lines 58-62)
status_enum(m) ==
    IF contains(INNINGS_BREAK, lower(get(m.status, <<>>))) THEN "innings_break"
    ELSE IF m.matchEnded THEN "completed" ELSE "live"

\* match_type = match_data.get('matchType', 'unknown').lower()
match_type(m) == lower(get(m.matchType, <<"u","n","k","n","o","w","n">>))

\* A phase rule whose limits include the boundary overs
phase_with_inclusive_limits(mtype, overs) ==
    IF contains(T20, mtype)
    THEN (IF overs <= 600 THEN "powerplay"
          ELSE IF overs >= 1500 THEN "death_overs" ELSE "middle_overs")
    ELSE IF contains(ODI, mtype)
    THEN (IF overs <= 1000 THEN "powerplay"
          ELSE IF overs >= 4000 THEN "death_overs" ELSE "middle_overs")
    ELSE "middle_overs"

\* Match Phase logic
phase(mtype, overs) ==
    IF contains(T20, mtype)
    THEN (IF overs < 600 THEN "powerplay"
          ELSE IF overs > 1500 THEN "death_overs" ELSE "middle_overs")
    ELSE IF contains(ODI, mtype)
    THEN (IF overs < 1000 THEN "powerplay"
          ELSE IF overs > 4000 THEN "death_overs" ELSE "middle_overs")
    ELSE "middle_overs"

\* " vs ".join(teams_list)
RECURSIVE join(_, _)
join(sep, texts) ==
    IF Len(texts) = 0 THEN <<>>
    ELSE IF Len(texts) = 1 THEN texts[1]
    ELSE texts[1] \o sep \o join(sep, Tail(texts))

VS == <<" ","v","s"," ">>
CHOSE_TO == <<" ","c","h","o","s","e"," ","t","o"," ">>
UNKNOWN_MATCH == <<"U","n","k","n","o","w","n"," ","M","a","t","c","h">>

\* teams_str
teams_str(m) ==
    IF m.teams # <<>> THEN join(VS, m.teams) ELSE get(m.name, UNKNOWN_MATCH)

\* "if scores:" - the last innings entry is the current one
has_current_inning(m) == m.score # <<>>
current_inning_obj(m) == m.score[Len(m.score)]

runs_of(m) == IF has_current_inning(m) THEN current_inning_obj(m).r ELSE 0
wickets_of(m) == IF has_current_inning(m) THEN current_inning_obj(m).w ELSE 0
overs_of(m) == IF has_current_inning(m) THEN current_inning_obj(m).o ELSE 0

\* The inputs on which parse_cricapi_match raises instead of returning:
\* None.lower() (lines 61, 93), a non-numeric overs compared with 0 (line 84),
\* None + str (line 111), a division by zero (line 90).
parse_raises(m) ==
    \/ m.status = NoneText
    \/ has_current_inning(m) /\ ~current_inning_obj(m).o_is_number
    \/ m.matchType = NoneText
    \/ m.tossWinner = NoneText
    \/ m.tossChoice = NoneText
    \/ reaches_division(overs_of(m)) /\ total_balls(overs_of(m)) = 0

\* The "toss" field
toss_text(m) == get(m.tossWinner, <<>>) \o CHOSE_TO \o get(m.tossChoice, <<>>)

\* What parse_cricapi_match returns: the record of the output schema, or Raised
parse_cricapi_match(m) ==
    IF parse_raises(m) THEN Raised
    ELSE Record(
    [match |->
        [id |-> m.id,
         teams |-> teams_str(m),
         format |-> upper(match_type(m)),
         venue |-> m.venue,
         innings |-> IF has_current_inning(m) THEN Len(m.score) ELSE 1,
         target |-> None,
         toss |-> toss_text(m),
         status |-> status_enum(m)],
     score |->
        [runs |-> runs_of(m),
         wickets |-> wickets_of(m),
         overs |-> overs_of(m),
         run_rate |-> run_rate(runs_of(m), overs_of(m)),
         required_rate |-> None],
     current_batter |->
        [name |-> "Data Not Available", runs |-> "0", balls |-> "0",
         strike_rate |-> "0.0", fours |-> "0", sixes |-> "0"],
     non_striker |->
        [name |-> "Data Not Available", runs |-> "0", balls |-> "0",
         strike_rate |-> "0.0"],
     current_bowler |->
        [name |-> "Data Not Available", overs |-> "0.0",
         runs_conceded |-> "0", wickets |-> "0", economy |-> "0.0",
         maidens |-> "0"],
     partnership |->
        [runs |-> "0", balls |-> "0", batter1 |-> None, batter2 |-> None],
     match_phase |-> phase(match_type(m), overs_of(m)),
     last_5_overs |-> [runs |-> "0", wickets |-> "0"],
     recent_wickets |-> <<>>,
     fetched_at |-> "now"])

-----------------------------------------------------------------------------
(* Decoded JSON bodies: what response.json() or json.load(f) may return    *)

\* kind: "none" (null), "emptylist" ([]), "list" (a non-empty array),
\* "emptyobj" ({}), "obj" (a non-empty object). For an object, status is the
\* value of its 'status' key ("absent" when it has none) and has_data tells
\* whether it has a 'data' key, whose value is the list data.
Body(kind, status, has_data, data) ==
    [kind |-> kind, status |-> status, has_data |-> has_data, data |-> data]

NoneBody == Body("none", "absent", FALSE, <<>>)

DataLists == SeqsUpTo(RawMatches, MaxMatches)

SuccessBodies ==
    {Body("obj", "success", FALSE, <<>>)}
        \cup {Body("obj", "success", TRUE, d) : d \in DataLists}

ErrorBodies ==
    {Body("obj", st, FALSE, <<>>) : st \in {"failure", "absent"}}
        \cup {Body("obj", st, TRUE, d) :
                st \in {"failure", "absent"},
                d \in {<<>>} \cup {<<m>> : m \in RawMatches}}

OddBodies ==
    {NoneBody, Body("emptylist", "absent", FALSE, <<>>),
     Body("list", "absent", FALSE, <<>>),
     Body("emptyobj", "absent", FALSE, <<>>)}

JsonBodies == SuccessBodies \cup ErrorBodies \cup OddBodies

\* Python truthiness of a decoded body ("not data_source" is its negation)
truthy(ds) == ds.kind \in {"list", "obj"}

-----------------------------------------------------------------------------
(* get_cricapi_data                                                        *)

\* What one requests.get + raise_for_status + response.json() can do
RequestOutcomes == {"ok", "timeout", "connection_error", "http_error", "bad_json"}

\* A client that retried after every failed request
retries_on_any_failure(first) == first # "ok"

\* Line 33: only requests.exceptions.Timeout leads to the retry
retries(first) == first = "timeout"

\* Lines 21-32 and 43-49: the key check and the first request
FirstRequest ==
    /\ pc = "main"
    /\ ~args.test
    /\ IF ~CRICAPI_KEY
       THEN /\ data_source' = NoneBody
            /\ pc' = "check"
            /\ UNCHANGED <<requests, first_request>>
       ELSE \E o \in RequestOutcomes :
            /\ requests' = requests + 1
            /\ first_request' = o
            /\ IF o = "ok"
               THEN /\ \E body \in JsonBodies : data_source' = body
                    /\ pc' = "check"
               ELSE IF retries(o)
               THEN /\ pc' = "retry"
                    /\ UNCHANGED data_source
               ELSE /\ data_source' = NoneBody
                    /\ pc' = "check"
    /\ UNCHANGED <<CRICAPI_KEY, PYCRICBUZZ_AVAILABLE, args, fallback_calls,
                   cricbuzz, match_data, selected_match, processed_data,
                   file, writes, exit_code, outcome>>

\* Lines 34-42: the retry after a timeout
RetryRequest ==
    /\ pc = "retry"
    /\ \E o \in RequestOutcomes :
        /\ requests' = requests + 1
        /\ IF o = "ok"
           THEN \E body \in JsonBodies : data_source' = body
           ELSE data_source' = NoneBody
    /\ pc' = "check"
    /\ UNCHANGED <<CRICAPI_KEY, PYCRICBUZZ_AVAILABLE, args, first_request,
                   fallback_calls, cricbuzz, match_data, selected_match,
                   processed_data, file, writes, exit_code, outcome>>

-----------------------------------------------------------------------------
(* run_cricbuzz_fallback                                                   *)

KeyMissing == "<missing>"    \* a key the Cricbuzz match object does not have

\* The matches Cricbuzz().matches() may list
CricbuzzMatches ==
    [id : Ids, mchstate : {"inprogress", "complete", KeyMissing},
     team1 : {INDIA}, team2 : {AUSTRALIA}, type : {T20_TEXT},
     venue_name : {"Eden Gardens"}, toss : {Missing}]

\* c.livescore(mid): "raises"; "no_score" (no first entry under
\* batting.score); "not_numeric" (an entry int()/float() rejects); "ok"
LivescoreAnswers == {"raises", "no_score", "not_numeric", "ok"}

in_progress(m) == m.mchstate = "inprogress"

\* live_matches = [m for m in matches if m['mchstate'] == 'inprogress']
live_matches_cricbuzz(matches) == SelectSeq(matches, in_progress)

lacks_state(matches) ==
    \E i \in 1..Len(matches) : matches[i].mchstate = KeyMissing

\* What the integration may answer: the connection fails, or it lists
\* matches and, when line 185 is reached, answers the live-score request.
CricbuzzAnswers ==
    {[connect |-> "error", matches |-> <<>>, livescore |-> "unused"]}
        \cup {[connect |-> "ok", matches |-> ms, livescore |-> ls] :
                ms \in SeqsUpTo(CricbuzzMatches, MaxMatches),
                ls \in LivescoreAnswers \cup {"unused"}}

\* livescore is "unused" exactly when the code never issues that request
WellFormedAnswer(cb) ==
    (cb.livescore = "unused") <=>
        \/ cb.connect # "ok"
        \/ lacks_state(cb.matches)
        \/ live_matches_cricbuzz(cb.matches) = <<>>

NotContacted == [connect |-> "not contacted", matches |-> <<>>, livescore |-> "unused"]

cricbuzz_score_without_required_rate ==
    [runs |-> 120, wickets |-> 3, overs |-> 1520, run_rate |-> 0]

\* Lines 200-206: the score part, read from the answer of livescore
cricbuzz_score ==
    [runs |-> 120, wickets |-> 3, overs |-> 1520, run_rate |-> 0,
     required_rate |-> None]

\* Lines 189-216: the record built from the first live match
cricbuzz_output(match) ==
    [match |->
        [id |-> match.id,
         teams |-> match.team1 \o VS \o match.team2,
         format |-> upper(match.type),
         venue |-> match.venue_name,
         innings |-> 1,
         target |-> None,
         toss |-> get(match.toss, <<>>),
         status |-> "live"],
     score |-> cricbuzz_score,
     current_batter |->
        [name |-> "N/A", runs |-> "0", balls |-> "0", strike_rate |-> "0",
         fours |-> "0", sixes |-> "0"],
     non_striker |->
        [name |-> "N/A", runs |-> "0", balls |-> "0", strike_rate |-> "0"],
     current_bowler |->
        [name |-> "N/A", overs |-> "0", runs_conceded |-> "0",
         wickets |-> "0", economy |-> "0", maidens |-> "0"],
     partnership |->
        [runs |-> "0", balls |-> "0", batter1 |-> "", batter2 |-> ""],
     match_phase |-> "middle_overs",
     last_5_overs |-> [runs |-> "0", wickets |-> "0"],
     recent_wickets |-> <<>>,
     fetched_at |-> "now"]

\* The kind of result run_cricbuzz_fallback gives: "none" (returns None),
\* "raised" (an exception leaves the function) or "record"
fallback_result(available, cb) ==
    IF ~available THEN "none"                                   \* 162-164
    ELSE IF cb.connect # "ok" THEN "none"                       \* 166-172
    ELSE IF lacks_state(cb.matches) THEN "raised"               \* 175
    ELSE IF live_matches_cricbuzz(cb.matches) = <<>> THEN "none"  \* 177-179
    ELSE IF cb.livescore # "ok" THEN "raised"                   \* 185, 201-203
    ELSE "record"

\* What run_cricbuzz_fallback hands to main
run_cricbuzz_fallback(available, cb) ==
    CASE fallback_result(available, cb) = "none" -> Nothing
      [] fallback_result(available, cb) = "raised" -> Raised
      [] OTHER -> Record(cricbuzz_output(live_matches_cricbuzz(cb.matches)[1]))

-----------------------------------------------------------------------------
(* main                                                                    *)

Init ==
    /\ CRICAPI_KEY \in BOOLEAN
    /\ PYCRICBUZZ_AVAILABLE \in BOOLEAN
    /\ args \in [test : BOOLEAN, match_id : Ids \cup {None}]
    /\ pc = "main"
    /\ requests = 0
    /\ first_request = "not sent"
    /\ data_source = NoneBody
    /\ fallback_calls = 0
    /\ cricbuzz = NotContacted
    /\ match_data = Nothing
    /\ selected_match = Nothing
    /\ processed_data = Nothing
    /\ file = PrevContent
    /\ writes = 0
    /\ exit_code = -1
    /\ outcome = "running"

\* The run ends: sys.exit(code), a return from main (0) or a traceback (1)
Exit(code, how) ==
    /\ pc' = "done"
    /\ exit_code' = code
    /\ outcome' = how

\* with open("match_state.json", "w") as f: json.dump(data, f, indent=2)
WriteFile(data) ==
    /\ file' = data
    /\ writes' = writes + 1

\* A test mode that handed the fixture to the check of line 240
TestMode_checking_fixture ==
    /\ pc = "main"
    /\ args.test
    /\ \/ /\ Exit(1, "no_fixture")
          /\ UNCHANGED data_source
       \/ /\ Exit(1, "crash")
          /\ UNCHANGED data_source
       \/ /\ \E body \in JsonBodies : data_source' = body
          /\ pc' = "check"
          /\ UNCHANGED <<exit_code, outcome>>
    /\ UNCHANGED <<CRICAPI_KEY, PYCRICBUZZ_AVAILABLE, args, requests,
                   first_request, fallback_calls, cricbuzz, match_data,
                   selected_match, processed_data, file, writes>>

\* Lines 227-235: --test reads the fixture; json.load may reject its content
TestMode ==
    /\ pc = "main"
    /\ args.test
    /\ \/ /\ Exit(1, "no_fixture")
          /\ UNCHANGED data_source
       \/ /\ Exit(1, "crash")
          /\ UNCHANGED data_source
       \/ /\ \E body \in JsonBodies : data_source' = body
          /\ pc' = "process"
          /\ UNCHANGED <<exit_code, outcome>>
    /\ UNCHANGED <<CRICAPI_KEY, PYCRICBUZZ_AVAILABLE, args, requests,
                   first_request, fallback_calls, cricbuzz, match_data,
                   selected_match, processed_data, file, writes>>

\* An orchestration that called .get on whatever the client returned
primary_failed_without_none_check(ds) == ds.kind = "obj" /\ ds.status # "success"

\* An orchestration that looked at nothing but the presence of a response
primary_failed_ignoring_status(ds) == ~truthy(ds)

\* Line 240: "not data_source or data_source.get('status') != 'success'";
\* .get on a non-empty list raises AttributeError
primary_failed(ds) == ~truthy(ds) \/ (ds.kind = "obj" /\ ds.status # "success")
check_raises(ds) == ds.kind = "list"

CheckPrimary ==
    /\ pc = "check"
    /\ IF primary_failed(data_source)
       THEN /\ pc' = "fallback"
            /\ UNCHANGED <<exit_code, outcome>>
       ELSE IF check_raises(data_source)
       THEN Exit(1, "crash")
       ELSE /\ pc' = "process"
            /\ UNCHANGED <<exit_code, outcome>>
    /\ UNCHANGED <<CRICAPI_KEY, PYCRICBUZZ_AVAILABLE, args, requests,
                   first_request, data_source, fallback_calls, cricbuzz,
                   match_data, selected_match, processed_data, file, writes>>

\* A fallback branch that opened the file before looking at the result
Fallback_writing_before_check ==
    /\ pc = "fallback"
    /\ fallback_calls' = fallback_calls + 1
    /\ \E cb \in IF PYCRICBUZZ_AVAILABLE
                 THEN {a \in CricbuzzAnswers : WellFormedAnswer(a)}
                 ELSE {NotContacted} :
        /\ cricbuzz' = cb
        /\ match_data' = run_cricbuzz_fallback(PYCRICBUZZ_AVAILABLE, cb)
        /\ IF match_data'.kind = "raised"
           THEN /\ Exit(1, "crash")
                /\ UNCHANGED <<file, writes>>
           ELSE IF match_data'.kind = "record"
           THEN /\ WriteFile(match_data')
                /\ Exit(0, "ok_fallback")
           ELSE /\ WriteFile(match_data')
                /\ Exit(1, "both_failed")
    /\ UNCHANGED <<CRICAPI_KEY, PYCRICBUZZ_AVAILABLE, args, requests,
                   first_request, data_source, selected_match, processed_data>>

\* Lines 242-250: the fallback call and what main does with its result.
\* The integration is contacted only when it is installed.
Fallback ==
    /\ pc = "fallback"
    /\ fallback_calls' = fallback_calls + 1
    /\ \E cb \in IF PYCRICBUZZ_AVAILABLE
                 THEN {a \in CricbuzzAnswers : WellFormedAnswer(a)}
                 ELSE {NotContacted} :
        /\ cricbuzz' = cb
        /\ match_data' = run_cricbuzz_fallback(PYCRICBUZZ_AVAILABLE, cb)
        /\ IF match_data'.kind = "raised"
           THEN /\ Exit(1, "crash")
                /\ UNCHANGED <<file, writes>>
           ELSE IF match_data'.kind = "record"
           THEN /\ WriteFile(match_data')
                /\ Exit(0, "ok_fallback")
           ELSE /\ Exit(1, "both_failed")
                /\ UNCHANGED <<file, writes>>
    /\ UNCHANGED <<CRICAPI_KEY, PYCRICBUZZ_AVAILABLE, args, requests,
                   first_request, data_source, selected_match, processed_data>>

\* Line 253: "not data_source or 'data' not in data_source"
no_match_data(ds) == ~truthy(ds) \/ ~ds.has_data

\* Line 257: matches = [m for m in data if started and not ended]
live_matches(ds) == SelectSeq(ds.data, is_live)

\* Line 267: next((m for m in matches if m['id'] == match_id), None),
\* as an index into matches, 0 for None
find_by_id(matches, match_id) ==
    IF \E i \in 1..Len(matches) : matches[i].id = match_id
    THEN CHOOSE i \in 1..Len(matches) :
            /\ matches[i].id = match_id
            /\ \A j \in 1..(i - 1) : matches[j].id # match_id
    ELSE 0

\* Lines 263-279: the index of selected_match in matches, 0 for "not found"
select_match(matches, match_id) ==
    IF Len(matches) = 1 THEN 1
    ELSE IF match_id # None THEN find_by_id(matches, match_id)
    ELSE 1

\* Lines 252-290: filter, select, normalize, write
Process ==
    /\ pc = "process"
    /\ IF no_match_data(data_source)
       THEN /\ Exit(1, "no_data")
            /\ UNCHANGED <<selected_match, processed_data, file, writes>>
       ELSE LET matches == live_matches(data_source)
                chosen == select_match(matches, args.match_id)
            IN  IF matches = <<>>
                THEN /\ Exit(0, "no_live")
                     /\ UNCHANGED <<selected_match, processed_data, file, writes>>
                ELSE IF chosen = 0
                THEN /\ Exit(1, "not_found")
                     /\ UNCHANGED <<selected_match, processed_data, file, writes>>
                ELSE /\ selected_match' = matches[chosen]
                     /\ processed_data' = parse_cricapi_match(matches[chosen])
                     /\ IF processed_data'.kind = "raised"
                        THEN /\ Exit(1, "crash")
                             /\ UNCHANGED <<file, writes>>
                        ELSE /\ WriteFile(processed_data')
                             /\ Exit(0, "ok")
    /\ UNCHANGED <<CRICAPI_KEY, PYCRICBUZZ_AVAILABLE, args, requests,
                   first_request, data_source, fallback_calls, cricbuzz,
                   match_data>>

Next ==
    \/ TestMode
    \/ FirstRequest
    \/ RetryRequest
    \/ CheckPrimary
    \/ Fallback
    \/ Process

Spec == Init /\ [][Next]_vars

-----------------------------------------------------------------------------
(* parse_cricapi_match on its own: one call on a bounded set of raw matches *)

\* overs values in hundredths: whole overs, a first decimal digit 0..9 and,
\* for values between two balls, a second decimal digit 4. (A second digit
\* of 5 is left out: there the float product (overs - over_part) * 10 need
\* not be the exact half that round() would break to even.)
OversValues ==
    {100 * w + 10 * b + h : w \in 0..MaxOvers, b \in 0..9, h \in {0, 4}}

ScoreEntries ==
    [r : 0..MaxRuns, w : {2}, o : OversValues, o_is_number : {TRUE}]

ParseInputs ==
    [id : {"m1"}, matchStarted : {TRUE}, matchEnded : {FALSE},
     status : {LIVE_TEXT},
     score : {<<>>} \cup {<<e>> : e \in ScoreEntries},
     matchType : {T20_TEXT}, teams : {<<INDIA, AUSTRALIA>>},
     name : {MATCH_NAME}, venue : {"Eden Gardens"},
     tossWinner : {INDIA}, tossChoice : {BAT}]

InitParse ==
    /\ CRICAPI_KEY = FALSE
    /\ PYCRICBUZZ_AVAILABLE = FALSE
    /\ args = [test |-> FALSE, match_id |-> None]
    /\ pc = "parse"
    /\ requests = 0
    /\ first_request = "not sent"
    /\ data_source = NoneBody
    /\ fallback_calls = 0
    /\ cricbuzz = NotContacted
    /\ match_data = Nothing
    /\ selected_match \in ParseInputs
    /\ processed_data = Nothing
    /\ file = PrevContent
    /\ writes = 0
    /\ exit_code = -1
    /\ outcome = "running"

\* processed_data = parse_cricapi_match(selected_match)
ParseMatch ==
    /\ pc = "parse"
    /\ processed_data' = parse_cricapi_match(selected_match)
    /\ pc' = "parsed"
    /\ UNCHANGED <<CRICAPI_KEY, PYCRICBUZZ_AVAILABLE, args, requests,
                   first_request, data_source, fallback_calls, cricbuzz,
                   match_data, selected_match, file, writes, exit_code,
                   outcome>>

NextParse == ParseMatch

SpecParse == InitParse /\ [][NextParse]_vars

-----------------------------------------------------------------------------
(* Properties                                                              *)

\* get_cricapi_data has returned to main in a non-test run
PrimaryReturned == ~args.test /\ pc \in {"check", "fallback", "process", "done"}

\* The primary fetch yielded None, or a JSON object whose 'status' is not
\* 'success' (an object without the key included)
PrimaryUnsuccessful ==
    \/ data_source.kind = "none"
    \/ data_source.kind \in {"obj", "emptyobj"} /\ data_source.status # "success"

\* C1: in a non-test run, once the primary fetch has yielded None or a
\* response whose status is not 'success', the run never enters the
\* processing of primary data, run_cricbuzz_fallback is invoked exactly once
\* by the time the run ends, and if that call did not return a record the
\* run ends with a non-zero exit code without having written
\* match_state.json.
C1_FallbackExactlyOnce ==
    (PrimaryReturned /\ PrimaryUnsuccessful) =>
        /\ pc # "process"
        /\ fallback_calls <= 1
        /\ pc \in {"check", "fallback"} => fallback_calls = 0
        /\ pc = "done" =>
            /\ fallback_calls = 1
            /\ match_data.kind # "record" =>
                  exit_code > 0 /\ writes = 0 /\ file = PrevContent

C1_Witness ==
    /\ pc = "done"
    /\ ~args.test
    /\ data_source.kind = "obj"
    /\ data_source.status = "failure"
    /\ PYCRICBUZZ_AVAILABLE
    /\ cricbuzz.connect = "ok"
    /\ fallback_calls = 1
    /\ match_data.kind = "none"
    /\ exit_code = 1
    /\ writes = 0

\* C2: a call of get_cricapi_data with an API key never issues more than two
\* requests; it issues the second one only after the first one timed out,
\* and once it has returned it has issued two requests if and only if the
\* first one timed out (a connection error, an HTTP error status or an
\* undecodable body leaves the count at one).
C2_RetryOnlyOnTimeout ==
    (~args.test /\ CRICAPI_KEY) =>
        /\ requests <= 2
        /\ pc = "retry" => requests = 1 /\ first_request = "timeout"
        /\ PrimaryReturned =>
            /\ requests >= 1
            /\ requests = 2 <=> first_request = "timeout"
            /\ first_request \in {"connection_error", "http_error", "bad_json"}
                  => requests = 1 /\ data_source = NoneBody

C2_Witness ==
    /\ PrimaryReturned
    /\ CRICAPI_KEY
    /\ first_request = "timeout"
    /\ requests = 2
    /\ data_source.kind = "obj"

\* The run has ended after main worked on a 'data' list of the primary
\* source or of the fixture (lines 257-290)
ProcessedData == pc = "done" /\ fallback_calls = 0 /\ data_source.has_data

\* Positions in the 'data' list of the matches that are started and not ended
LivePositions ==
    {i \in 1..Len(data_source.data) :
        data_source.data[i].matchStarted /\ ~data_source.data[i].matchEnded}

RequestedIdAbsent ==
    /\ args.match_id # None
    /\ \A i \in LivePositions : data_source.data[i].id # args.match_id

\* Every live match of the 'data' list is one the normalizer accepts
LiveMatchesWellFormed ==
    \A i \in LivePositions : ~parse_raises(data_source.data[i])

\* C3: whenever --match-id is given, the live set is not empty and no match
\* of the live set has that id, the run ends in the "not found" error with a
\* non-zero exit code and nothing written, whatever the size of the live set
\* (stated for live sets of well-formed matches, so that a failure of the
\* normalizer plays no part).
C3_NotFoundForEveryLiveSet ==
    (/\ ProcessedData
     /\ LivePositions # {}
     /\ LiveMatchesWellFormed
     /\ RequestedIdAbsent) =>
        outcome = "not_found" /\ exit_code > 0 /\ writes = 0

\* The primary source, in a run that accepted its answer (status 'success'),
\* or the test fixture supplied a 'data' list without any live match
NoLiveSupplied ==
    /\ pc \in {"check", "process", "done"}
    /\ data_source.has_data
    /\ args.test \/ data_source.status = "success"
    /\ LivePositions = {}

C5_ParseFailureIsolated ==
    (/\ ProcessedData
     /\ \E i \in LivePositions : parse_raises(data_source.data[i])
     /\ \E i \in LivePositions : ~parse_raises(data_source.data[i])) =>
        exit_code = 0 /\ writes = 1 /\ file.kind = "record"

\* The primary response decoded to a JSON object of unexpected shape:
\* 'status' is 'success' but there is no 'data' key
UnexpectedShape ==
    /\ data_source.kind = "obj"
    /\ data_source.status = "success"
    /\ ~data_source.has_data

\* C6: in a non-test run a primary response of unexpected shape is handled
\* like a transport failure: the run does not end before the fallback
\* client has been attempted (stated for the first shape the claim names,
\* an object with 'status' equal to 'success' and no 'data' key).
C6_UnexpectedShapeFallsBack ==
    (~args.test /\ pc = "done" /\ UnexpectedShape) => fallback_calls = 1

\* C7: whatever fails inside run_cricbuzz_fallback (integration missing,
\* connection failure, a listed match without its state field, a failing
\* live-score request, a missing or non-numeric score entry), the call
\* returns None: no exception reaches main.
C7_ClientsNeverRaise ==
    (pc = "done" /\ fallback_calls = 1) => match_data.kind \in {"none", "record"}

\* C8: with no API key a non-test run issues no request to the primary API,
\* never enters the processing of primary data, does not crash before the
\* fallback client has been called, calls it exactly once, and ends as the
\* fallback result alone decides: a record is written and the exit code is 0,
\* None gives "both failed" with exit code 1 and nothing written.
C8_MissingKeyGoesToFallback ==
    (~args.test /\ ~CRICAPI_KEY) =>
        /\ requests = 0
        /\ pc \notin {"retry", "process"}
        /\ fallback_calls <= 1
        /\ pc = "done" =>
            /\ fallback_calls = 1
            /\ outcome = "crash" => match_data.kind = "raised"
            /\ match_data.kind = "record" =>
                  outcome = "ok_fallback" /\ exit_code = 0 /\ file = match_data
            /\ match_data.kind = "none" =>
                  outcome = "both_failed" /\ exit_code = 1 /\ writes = 0

C8_Witness ==
    /\ ~args.test
    /\ ~CRICAPI_KEY
    /\ pc = "done"
    /\ requests = 0
    /\ fallback_calls = 1
    /\ outcome = "ok_fallback"

\* Positions of the matches the fallback listing flags as in progress
InProgressPositions ==
    {i \in 1..Len(cricbuzz.matches) : cricbuzz.matches[i].mchstate = "inprogress"}

\* match_state.json holds one JSON object, that is one record
RecordsWritten == IF file.kind = "record" THEN 1 ELSE 0

\* C9: when the fallback client succeeds, the written output holds a record
\* for each of the n >= 1 matches its listing flags as in progress.
C9_FallbackWritesEveryLiveMatch ==
    (pc = "done" /\ outcome = "ok_fallback") =>
        RecordsWritten = Cardinality(InProgressPositions)

\* A call of parse_cricapi_match on a match with numeric score fields is over
Parsed == pc = "parsed"

\* The overs value is in cricket notation: one decimal digit, in 0..5
InNotation(overs) == overs % 10 = 0 /\ (overs % 100) \div 10 <= 5

\* 6*W + B for an overs value in notation
NotationBalls(overs) == 6 * (overs \div 100) + (overs % 100) \div 10

\* rate (hundredths) is runs / balls * 6 rounded to two decimals: no other
\* multiple of 0.01 is nearer to the exact quotient
NearestHundredth(rate, runs, balls) ==
    /\ 2 * (rate * balls - 600 * runs) <= balls
    /\ 2 * (600 * runs - rate * balls) <= balls

\* C10: parse_cricapi_match never divides by zero, whatever runs >= 0 and
\* overs >= 0 it is given; with overs = 0 (an empty innings array included)
\* run_rate is 0.0; with overs in cricket notation W.B (B in 0..5) it counts
\* total_balls = 6*W + B and run_rate is runs / total_balls * 6 rounded to
\* two decimals; overs 10.3 and runs 65 give 63 balls and 6.19.
C10_RunRate ==
    Parsed =>
        /\ processed_data.kind = "record"
        /\ LET runs == processed_data.record.score.runs
               overs == processed_data.record.score.overs
               rate == processed_data.record.score.run_rate
           IN  /\ selected_match.score = <<>> => overs = 0
               /\ selected_match.score # <<>> =>
                     /\ runs = selected_match.score[1].r
                     /\ overs = selected_match.score[1].o
               /\ overs = 0 => rate = 0
               /\ (overs > 0 /\ InNotation(overs)) =>
                     /\ total_balls(overs) = NotationBalls(overs)
                     /\ NearestHundredth(rate, runs, NotationBalls(overs))
               /\ (overs = 1030 /\ runs = 65) =>
                     total_balls(overs) = 63 /\ rate = 619

C10_Witness ==
    /\ Parsed
    /\ processed_data.kind = "record"
    /\ selected_match.score # <<>>
    /\ processed_data.record.score.overs = 1030
    /\ processed_data.record.score.runs = 65
    /\ processed_data.record.score.run_rate = 619

-----------------------------------------------------------------------------
(* parse_cricapi_match on its own: match types and overs for the phase     *)

T20_LOWER == <<"t","2","0">>
T20I_TEXT == <<"T","2","0","I">>
ODI_TEXT == <<"O","D","I">>
ODI_MIXED == <<"O","d","i">>
TEST_TEXT == <<"T","e","s","t">>

\* Values of 'matchType', the absent key included
MatchTypes ==
    {T20_TEXT, T20_LOWER, T20I_TEXT, ODI_TEXT, ODI_MIXED, TEST_TEXT, Missing}

\* overs values with one decimal digit, up to MaxPhaseOvers whole overs
PhaseOvers == {100 * w + 10 * b : w \in 0..MaxPhaseOvers, b \in 0..9}

PhaseInputs ==
    [id : {"m1"}, matchStarted : {TRUE}, matchEnded : {FALSE},
     status : {LIVE_TEXT},
     score : {<<>>} \cup
             {<<[r |-> 65, w |-> 2, o |-> o, o_is_number |-> TRUE]>> :
                 o \in PhaseOvers},
     matchType : MatchTypes, teams : {<<INDIA, AUSTRALIA>>},
     name : {MATCH_NAME}, venue : {"Eden Gardens"},
     tossWinner : {INDIA}, tossChoice : {BAT}]

InitPhase ==
    /\ CRICAPI_KEY = FALSE
    /\ PYCRICBUZZ_AVAILABLE = FALSE
    /\ args = [test |-> FALSE, match_id |-> None]
    /\ pc = "parse"
    /\ requests = 0
    /\ first_request = "not sent"
    /\ data_source = NoneBody
    /\ fallback_calls = 0
    /\ cricbuzz = NotContacted
    /\ match_data = Nothing
    /\ selected_match \in PhaseInputs
    /\ processed_data = Nothing
    /\ file = PrevContent
    /\ writes = 0
    /\ exit_code = -1
    /\ outcome = "running"

SpecPhase == InitPhase /\ [][NextParse]_vars

\* The match types whose text contains "t20", and those that contain "odi"
\* and not "t20", whatever the case of the letters
TwentyFormats == {T20_TEXT, T20_LOWER, T20I_TEXT}
OneDayFormats == {ODI_TEXT, ODI_MIXED}

\* C11: match_phase is a function of the format and the current overs alone.
\* Format containing "t20": powerplay below 6 overs, death_overs above 15,
\* middle_overs from 6 to 15; format containing "odi": powerplay below 10,
\* death_overs above 40, middle_overs from 10 to 40; any other format, or
\* none, middle_overs whatever the overs.
C11_MatchPhase ==
    Parsed =>
        /\ processed_data.kind = "record"
        /\ LET overs == processed_data.record.score.overs
               mtype == selected_match.matchType
               result == processed_data.record.match_phase
           IN  /\ mtype \in TwentyFormats =>
                     /\ overs < 600 => result = "powerplay"
                     /\ overs > 1500 => result = "death_overs"
                     /\ (overs >= 600 /\ overs <= 1500) => result = "middle_overs"
               /\ mtype \in OneDayFormats =>
                     /\ overs < 1000 => result = "powerplay"
                     /\ overs > 4000 => result = "death_overs"
                     /\ (overs >= 1000 /\ overs <= 4000) => result = "middle_overs"
               /\ mtype \notin (TwentyFormats \cup OneDayFormats) =>
                     result = "middle_overs"

C11_Witness ==
    /\ Parsed
    /\ processed_data.kind = "record"
    /\ selected_match.matchType = ODI_MIXED
    /\ processed_data.record.score.overs = 4100
    /\ processed_data.record.match_phase = "death_overs"

-----------------------------------------------------------------------------
(* parse_cricapi_match on its own: status text, ended flag, toss and teams *)

BREAK_LOWER == <<"i","n","n","i","n","g","s"," ","b","r","e","a","k">>
BREAK_UPPER == <<"I","N","N","I","N","G","S"," ","B","R","E","A","K">>
BREAK_LONG == <<"A","u","s",":"," ">> \o BREAK_TEXT \o <<" ","n","o","w">>
WON_TEXT == <<"I","n","d"," ","w","o","n">>

\* Values of 'status', the absent key included
StatusTexts ==
    {LIVE_TEXT, WON_TEXT, BREAK_TEXT, BREAK_LOWER, BREAK_UPPER, BREAK_LONG,
     Missing}

TextInputs ==
    [id : {"m1"}, matchStarted : {TRUE}, matchEnded : BOOLEAN,
     status : StatusTexts,
     score : {<<GoodEntry>>},
     matchType : {T20_TEXT}, teams : {<<>>, <<INDIA, AUSTRALIA>>},
     name : {MATCH_NAME}, venue : {"Eden Gardens"},
     tossWinner : {INDIA, Missing, NoneText},
     tossChoice : {BAT, Missing, NoneText}]

InitText ==
    /\ CRICAPI_KEY = FALSE
    /\ PYCRICBUZZ_AVAILABLE = FALSE
    /\ args = [test |-> FALSE, match_id |-> None]
    /\ pc = "parse"
    /\ requests = 0
    /\ first_request = "not sent"
    /\ data_source = NoneBody
    /\ fallback_calls = 0
    /\ cricbuzz = NotContacted
    /\ match_data = Nothing
    /\ selected_match \in TextInputs
    /\ processed_data = Nothing
    /\ file = PrevContent
    /\ writes = 0
    /\ exit_code = -1
    /\ outcome = "running"

SpecText == InitText /\ [][NextParse]_vars

\* The status texts that contain "innings break", whatever the case
BreakTexts == {BREAK_TEXT, BREAK_LOWER, BREAK_UPPER, BREAK_LONG}

\* C12: the status of the record is 'completed' whenever the ended flag of
\* the raw match is true, whatever its status text; only with the flag false
\* is the text examined: 'innings_break' if it contains "innings break"
\* (in any case), 'live' otherwise.
C12_StatusEnum ==
    (Parsed /\ processed_data.kind = "record") =>
        LET result == processed_data.record.match.status
        IN  /\ selected_match.matchEnded => result = "completed"
            /\ ~selected_match.matchEnded =>
                  IF selected_match.status \in BreakTexts
                  THEN result = "innings_break"
                  ELSE result = "live"

DATA_NOT_AVAILABLE ==
    <<"D","a","t","a"," ","N","o","t"," ","A","v","a","i","l","a","b","l","e">>

\* C13: for every raw match without a toss winner the toss description of
\* the record is the sentinel "Data Not Available", never a text assembled
\* from the missing values, and normalization does not fail.
C13_TossSentinel ==
    (Parsed /\ selected_match.tossWinner \in {Missing, NoneText}) =>
        /\ processed_data.kind = "record"
        /\ processed_data.record.match.toss = DATA_NOT_AVAILABLE

-----------------------------------------------------------------------------
(* The shape of the records written to match_state.json *)

RecordFields ==
    {"match", "score", "current_batter", "non_striker", "current_bowler",
     "partnership", "match_phase", "last_5_overs", "recent_wickets",
     "fetched_at"}

MatchFields ==
    {"id", "teams", "format", "venue", "innings", "target", "toss", "status"}

ScoreFields == {"runs", "wickets", "overs", "run_rate", "required_rate"}

BatterFields == {"name", "runs", "balls", "strike_rate", "fours", "sixes"}

NonStrikerFields == {"name", "runs", "balls", "strike_rate"}

BowlerFields ==
    {"name", "overs", "wickets", "runs_conceded", "economy", "maidens"}

PartnershipFields == {"runs", "balls", "batter1", "batter2"}

LastOversFields == {"runs", "wickets"}

HasFixedShape(r) ==
    /\ DOMAIN r = RecordFields
    /\ DOMAIN r.match = MatchFields
    /\ DOMAIN r.score = ScoreFields
    /\ DOMAIN r.current_batter = BatterFields
    /\ DOMAIN r.non_striker = NonStrikerFields
    /\ DOMAIN r.current_bowler = BowlerFields
    /\ DOMAIN r.partnership = PartnershipFields
    /\ DOMAIN r.last_5_overs = LastOversFields

\* C14: every record written to match_state.json, by parse_cricapi_match or
\* by run_cricbuzz_fallback, has the same fixed set of fields and the same
\* sub-fields under each; no field is absent for any input.
C14_FixedShape ==
    /\ file.kind = "record" => HasFixedShape(file.record)
    /\ processed_data.kind = "record" => HasFixedShape(processed_data.record)
    /\ match_data.kind = "record" => HasFixedShape(match_data.record)

\* The fallback has written its record
C14_Witness ==
    /\ outcome = "ok_fallback"
    /\ writes = 1
    /\ file.kind = "record"
    /\ file.record.score.required_rate = None

-----------------------------------------------------------------------------
(* The placeholder fields of the two producers *)

\* The fields no upstream supplies, as one record
Placeholders(r) ==
    [current_batter |-> r.current_batter,
     non_striker |-> r.non_striker,
     current_bowler |-> r.current_bowler,
     partnership |-> r.partnership,
     last_5_overs |-> r.last_5_overs,
     recent_wickets |-> r.recent_wickets]

\* What parse_cricapi_match puts in them: the same for every raw match
PrimaryPlaceholders ==
    Placeholders(parse_cricapi_match(
        CHOOSE m \in RawMatches : ~parse_raises(m)).record)

\* C15: a record built by the fallback carries, in every ball-by-ball and
\* situational field (batter, non-striker, bowler, partnership, last_5_overs,
\* recent_wickets), exactly the sentinel that parse_cricapi_match puts in
\* that field.
C15_SameSentinels ==
    (outcome = "ok_fallback" /\ file.kind = "record") =>
        Placeholders(file.record) = PrimaryPlaceholders

-----------------------------------------------------------------------------
(* Test mode *)

\* C16: in a run started with --test neither get_cricapi_data nor
\* run_cricbuzz_fallback is ever invoked, no network source being contacted
\* at any point of the run; if the fixture file does not exist the run ends
\* with a non-zero exit code and writes nothing.
C16_TestModeIsOffline ==
    /\ args.test =>
        /\ requests = 0
        /\ first_request = "not sent"
        /\ fallback_calls = 0
        /\ cricbuzz = NotContacted
        /\ match_data = Nothing
        /\ pc \in {"main", "process", "done"}
    /\ outcome = "no_fixture" =>
        /\ args.test
        /\ pc = "done"
        /\ exit_code > 0
        /\ writes = 0
        /\ file = PrevContent

\* A test run has ended on a fixture whose status is not 'success', which
\* would have sent a live run to the fallback
C16_Witness ==
    /\ args.test
    /\ pc = "done"
    /\ data_source.kind = "obj"
    /\ data_source.status # "success"

-----------------------------------------------------------------------------
(* Selection on the primary path *)

\* The live set, in upstream order
LiveSet == SelectSeq(data_source.data, LAMBDA m : m.matchStarted /\ ~m.matchEnded)

SeveralLive == Len(LiveSet) > 1

\* The run is one of the cases of the selection policy: one live match,
\* several without --match-id, several with a --match-id of the live set
SelectionCase ==
    /\ ProcessedData
    /\ LiveSet # <<>>
    /\ ~(SeveralLive /\ RequestedIdAbsent)

\* C17: on the primary path with a non-empty live set main selects exactly
\* one match and writes exactly one record: the first match of the live set
\* when there are several and no --match-id, the match with that id when
\* there are several and the --match-id is in the live set; the selected
\* match is always a member of the live set.
C17_SelectsAndWritesOne ==
    SelectionCase =>
        /\ \E i \in 1..Len(LiveSet) : selected_match = LiveSet[i]
        /\ (SeveralLive /\ args.match_id = None) => selected_match = LiveSet[1]
        /\ (SeveralLive /\ args.match_id # None) =>
              selected_match.id = args.match_id
        /\ writes = 1
        /\ file.kind = "record"
        /\ file.record.match.id = selected_match.id

-----------------------------------------------------------------------------
(* The output file *)

\* The run ended with exit code 0 and a match to report
Succeeded == pc = "done" /\ exit_code = 0 /\ outcome # "no_live"

\* The run ended with a non-zero exit code or found no live match
EndedWithoutOutput ==
    pc = "done" /\ (exit_code # 0 \/ outcome = "no_live")

\* C18: in every run match_state.json is written at most once, and the write
\* is the last state-changing step before the summary line and a zero exit;
\* a run that ends with a non-zero exit code or with the 'no live matches'
\* outcome leaves the previous content of the file unchanged, and after a
\* successful run the file holds only the output of that run.
C18_WrittenOnceAtTheEnd ==
    /\ writes <= 1
    /\ writes = 1 => Succeeded
    /\ pc # "done" => writes = 0 /\ file = PrevContent
    /\ EndedWithoutOutput => writes = 0 /\ file = PrevContent
    /\ Succeeded =>
        /\ writes = 1
        /\ file.kind = "record"
        /\ IF fallback_calls = 0
           THEN file = processed_data
           ELSE file = match_data

\* A run on the primary path has written its record and ended with code 0
C18_Witness ==
    /\ outcome = "ok"
    /\ exit_code = 0
    /\ writes = 1
    /\ file = processed_data
    /\ file # PrevContent

-----------------------------------------------------------------------------
(* The status of written records *)

\* C19: no record written to match_state.json has status 'completed': on the
\* primary path only matches with matchStarted true and matchEnded false
\* reach parse_cricapi_match, so the written status is 'live' or
\* 'innings_break'; on the fallback path it is always 'live'.
C19_NeverCompleted ==
    /\ selected_match # Nothing =>
          selected_match.matchStarted /\ ~selected_match.matchEnded
    /\ file.kind = "record" =>
          /\ file.record.match.status # "completed"
          /\ IF fallback_calls = 0
             THEN file.record.match.status \in {"live", "innings_break"}
             ELSE file.record.match.status = "live"

\* The primary path has written the record of a match between innings
C19_Witness ==
    /\ outcome = "ok"
    /\ file.kind = "record"
    /\ file.record.match.status = "innings_break"
    /\ selected_match.status = BREAK_TEXT

====
